---- MODULE Spec2Model ----
(***************************************************************************)
(* HydroSnap QR pipeline: QRCodeGenerator (generate_qr_codes.py) builds a  *)
(* site payload, hashes it, compresses and Fernet-encrypts it into a token;*)
(* QRCodeValidator (qr_validator.py) decrypts a scanned string and runs    *)
(* the active / hash / expiry checks; generate_all_qr_codes loops over the *)
(* rows of the CSV.                                                        *)
(*                                                                         *)
(* Python values are tagged tuples <<type, content>>, byte strings are     *)
(* tagged by the layer that produced them, text is a sequence of           *)
(* one-character strings, and an exception is the value <<"raise", kind>>. *)
(* Floats are fixed-point: Flt(t) is the float t/10.  Time is counted in   *)
(* days.                                                                   *)
(***************************************************************************)
EXTENDS Integers, Sequences, FiniteSets, TLC

VARIABLES
    now,        \* the wall clock, datetime.now()
    ticks,      \* how many times the clock was advanced between calls
    payload,    \* what generate_qr_data returned (NoValue before the call)
    token,      \* what encrypt_site_data returned (NoValue before the call)
    scanned,    \* qr_content and clock reading of the validate_qr_code call
                \* just made (NoValue once anything else has happened)
    result,     \* what that call returned, or the exception it raised
    probe,      \* the last direct validate_site_hash call: payloads and verdicts
    validator,  \* the QRCodeValidator object (self)
    earlier,    \* the first validate_qr_code call made on it: content, clock,
                \* result (kept for comparison with later calls)
    geo,        \* the last validate_location_proximity call and what it returned
    rows,       \* the DataFrame of generate_all_qr_codes, a sequence of dicts
    idx,        \* rows consumed by the loop so far
    successful, \* generate_all_qr_codes' counters
    failed,
    failed_sites,
    handled,    \* per row processed, what generate_qr_for_site returned
    loop        \* "run", "done" (for-loop exhausted) or "aborted" (except at 457)

vars == <<now, ticks, payload, token, scanned, result, probe,
          validator, earlier, geo,
          rows, idx, successful, failed, failed_sites, handled, loop>>

pipeVars  == <<now, ticks, payload, token, scanned, result>>
batchVars == <<rows, idx, successful, failed, failed_sites, handled, loop>>

(***************************************************************************)
(* Bounds of the model.                                                    *)
(***************************************************************************)
MaxTicks == 2      \* clock advances between calls
MaxDrift == 1      \* days the clock may move between two reads inside one call
MaxRows  == 2      \* rows of the CSV

(* timedelta(days=365) *)
ValidDays == 365

(***************************************************************************)
(* Python values.                                                          *)
(***************************************************************************)
NoValue == <<"novalue">>
None == <<"none">>
Str(s) == <<"str", s>>
Flt(t) == <<"float", t>>
PyInt(n) == <<"int", n>>
PyBool(b) == <<"bool", b>>
Dict(r) == <<"dict", r>>
List(n) == <<"list", n>>
NaN == <<"nan">>
Raise(e) == <<"raise", e>>

TypeOf(v) == v[1]
IsRaise(v) == v[1] = "raise"

(* bool(v), `not v`, `if v` *)
Truthy(v) ==
    CASE TypeOf(v) = "none" -> FALSE
      [] TypeOf(v) = "bool" -> v[2]
      [] TypeOf(v) = "int" -> v[2] # 0
      [] TypeOf(v) = "float" -> v[2] # 0
      [] TypeOf(v) = "str" -> Len(v[2]) > 0
      [] TypeOf(v) = "dict" -> DOMAIN v[2] # {}
      [] TypeOf(v) = "list" -> v[2] > 0
      [] OTHER -> TRUE

(* d.get(k, default) on a dict; on anything else AttributeError *)
Get(d, k, default) ==
    IF TypeOf(d) # "dict" THEN Raise("AttributeError")
    ELSE IF k \in DOMAIN d[2] THEN d[2][k] ELSE default

(* d[k]: KeyError on a dict without k, TypeError on a value that takes no
   string subscript; an exception raised earlier in the expression goes on *)
Subscript(d, k) ==
    IF IsRaise(d) THEN d
    ELSE IF TypeOf(d) # "dict" THEN Raise("TypeError")
    ELSE IF k \in DOMAIN d[2] THEN d[2][k] ELSE Raise("KeyError")

(* d[k] = v *)
SetItem(d, k, v) ==
    Dict([x \in DOMAIN d[2] \cup {k} |-> IF x = k THEN v ELSE d[2][x]])

(* del d[k] *)
DelItem(d, k) == Dict([x \in DOMAIN d[2] \ {k} |-> d[2][x]])

(***************************************************************************)
(* Text: decimal digits, str(), float(), int(), isoformat.                 *)
(***************************************************************************)
DigitChars == <<"0", "1", "2", "3", "4", "5", "6", "7", "8", "9">>

RECURSIVE Digits(_)
Digits(n) ==
    IF n < 10 THEN <<DigitChars[n + 1]>>
    ELSE Digits(n \div 10) \o <<DigitChars[(n % 10) + 1]>>

DigitValue(c) == CHOOSE i \in 0..9 : DigitChars[i + 1] = c
IsDigit(c) == \E i \in 1..10 : DigitChars[i] = c
AllDigits(s) == Len(s) > 0 /\ \A i \in 1..Len(s) : IsDigit(s[i])

RECURSIVE ParseNat(_)
ParseNat(s) ==
    IF Len(s) = 0 THEN 0
    ELSE 10 * ParseNat(SubSeq(s, 1, Len(s) - 1)) + DigitValue(s[Len(s)])

(* repr of a non-negative float with one decimal: 10.0 -> "10.0" *)
FloatStr(t) == Digits(t \div 10) \o <<".">> \o <<DigitChars[(t % 10) + 1]>>

(* f"{v}" and str(v) of a scalar *)
Format(v) ==
    CASE TypeOf(v) = "str" -> v[2]
      [] TypeOf(v) = "float" -> FloatStr(v[2])
      [] TypeOf(v) = "int" -> Digits(v[2])
      [] TypeOf(v) = "bool" ->
            IF v[2] THEN <<"T", "r", "u", "e">> ELSE <<"F", "a", "l", "s", "e">>
      [] TypeOf(v) = "none" -> <<"N", "o", "n", "e">>
      [] TypeOf(v) = "nan" -> <<"n", "a", "n">>

ToStr(v) == IF IsRaise(v) THEN v ELSE Str(Format(v))

(* "12", "12.5" *)
IsDecimal(s) ==
    \/ AllDigits(s)
    \/ /\ Len(s) >= 3
       /\ s[Len(s) - 1] = "."
       /\ IsDigit(s[Len(s)])
       /\ AllDigits(SubSeq(s, 1, Len(s) - 2))

ParseDecimal(s) ==
    IF AllDigits(s) THEN 10 * ParseNat(s)
    ELSE 10 * ParseNat(SubSeq(s, 1, Len(s) - 2)) + DigitValue(s[Len(s)])

(* float(v) *)
ToFloat(v) ==
    CASE IsRaise(v) -> v
      [] TypeOf(v) = "float" -> v
      [] TypeOf(v) = "int" -> Flt(10 * v[2])
      [] TypeOf(v) = "bool" -> Flt(IF v[2] THEN 10 ELSE 0)
      [] TypeOf(v) = "nan" -> v
      [] TypeOf(v) = "str" ->
            IF IsDecimal(v[2]) THEN Flt(ParseDecimal(v[2])) ELSE Raise("ValueError")
      [] OTHER -> Raise("TypeError")

(* int(v): truncates a float, parses digits only ("12.5" is a ValueError) *)
ToInt(v) ==
    CASE IsRaise(v) -> v
      [] TypeOf(v) = "float" -> PyInt(v[2] \div 10)
      [] TypeOf(v) = "int" -> v
      [] TypeOf(v) = "bool" -> PyInt(IF v[2] THEN 1 ELSE 0)
      [] TypeOf(v) = "nan" -> Raise("ValueError")
      [] TypeOf(v) = "str" ->
            IF AllDigits(v[2]) THEN PyInt(ParseNat(v[2])) ELSE Raise("ValueError")
      [] OTHER -> Raise("TypeError")

ToBool(v) == IF IsRaise(v) THEN v ELSE PyBool(Truthy(v))

(* datetime.isoformat(): day t is written "T<t>" *)
isoformat(t) == Str(<<"T">> \o Digits(t))

(* datetime.fromisoformat(v): a day number, or an exception *)
fromisoformat(v) ==
    IF TypeOf(v) # "str" THEN Raise("TypeError")
    ELSE IF Len(v[2]) >= 2 /\ v[2][1] = "T" /\ AllDigits(Tail(v[2]))
         THEN PyInt(ParseNat(Tail(v[2])))
         ELSE Raise("ValueError")

(* hashlib.sha256(s.encode()).hexdigest()[:16], taken as injective *)
Sha256Hex16(s) == Str(<<"#">> \o s)

(* the first exception in a sequence of evaluated expressions, else NoValue *)
RECURSIVE FirstRaise(_)
FirstRaise(vs) ==
    IF Len(vs) = 0 THEN NoValue
    ELSE IF IsRaise(Head(vs)) THEN Head(vs) ELSE FirstRaise(Tail(vs))

(***************************************************************************)
(* QRCodeGenerator.                                                        *)
(***************************************************************************)

(* QRCodeGenerator.__init__ / QRCodeValidator.__init__: the Fernet key is
   sha256 of the secret, taken as injective *)
DeriveKey(secret_key) == <<"sha256", secret_key>>

(* create_validation_hash: KeyError (and any other exception) propagates *)
create_validation_hash(site_data) ==
    LET siteId == Subscript(site_data, "siteId")
        name == Subscript(site_data, "name")
        lat == Subscript(Subscript(site_data, "coordinates"), "lat")
        lng == Subscript(Subscript(site_data, "coordinates"), "lng")
        err == FirstRaise(<<siteId, name, lat, lng>>)
    IN  IF err # NoValue THEN err
        ELSE Sha256Hex16(Format(siteId) \o Format(name) \o Format(lat) \o Format(lng))

(* generate_qr_data: t1 and t2 are the two reads of datetime.now(), lines 87
   and 89.  The dict literal is evaluated top to bottom and the first failing
   conversion raises; the except clauses re-raise. *)
generate_qr_data(site_info, t1, t2) ==
    LET siteId == ToStr(Subscript(site_info, "id"))
        name == ToStr(Subscript(site_info, "name"))
        location == ToStr(Subscript(site_info, "location"))
        lat == ToFloat(Subscript(site_info, "latitude"))
        lng == ToFloat(Subscript(site_info, "longitude"))
        safe == ToFloat(Subscript(site_info, "safe_level"))
        warning == ToFloat(Subscript(site_info, "warning_level"))
        danger == ToFloat(Subscript(site_info, "danger_level"))
        radius == ToInt(Subscript(site_info, "geofence_radius"))
        qrCode == ToStr(Subscript(site_info, "qr_code"))
        isActive == ToBool(Subscript(site_info, "is_active"))
        err == FirstRaise(<<siteId, name, location, lat, lng, safe, warning,
                            danger, radius, qrCode, isActive>>)
    IN  IF err # NoValue THEN err
        ELSE LET qr_payload ==
                    Dict([siteId |-> siteId,
                          name |-> name,
                          location |-> location,
                          coordinates |-> Dict([lat |-> lat, lng |-> lng]),
                          levels |-> Dict([safe |-> safe, warning |-> warning,
                                           danger |-> danger]),
                          geofenceRadius |-> radius,
                          qrCode |-> qrCode,
                          isActive |-> isActive,
                          generatedAt |-> isoformat(t1),
                          expiresAt |-> isoformat(t2 + ValidDays),
                          validationHash |-> Str(<<>>)])
                 h == create_validation_hash(qr_payload)
             IN  IF IsRaise(h) THEN h ELSE SetItem(qr_payload, "validationHash", h)

(***************************************************************************)
(* Bytes: json, zlib, base64 and Fernet.                                   *)
(*   <<"json", v>>            json.dumps(v).encode()                       *)
(*   <<"zlib", b, n>>         zlib.compress(b), n bytes long               *)
(*   <<"fernet", key, ts, iv, plaintext, damage>>                          *)
(*        the binary Fernet token 0x80 | ts | iv | AES-CBC | HMAC;         *)
(*        damage names the region a later edit has changed ("none":        *)
(*        as produced)                                                     *)
(*   <<"b64", b, slack, stray>>  URL-safe base64 text of b; slack = 1 when *)
(*        the unused low bits of the last character before the padding     *)
(*        are not zero, stray when a character outside the alphabet is     *)
(*        in the text                                                      *)
(*   <<"text", s>>            any other text                               *)
(* HMAC-SHA256 and AES are ideal: a Fernet token verifies only under the   *)
(* key that made it and only undamaged, and bytes that were not made by    *)
(* Fernet never verify.                                                    *)
(***************************************************************************)
json_dumps(v) == <<"json", v>>

(* json.loads(b.decode()): UnicodeDecodeError or JSONDecodeError on bytes
   that are not JSON text *)
json_loads(b) ==
    IF IsRaise(b) THEN b
    ELSE IF TypeOf(b) = "json" THEN b[2] ELSE Raise("ValueError")

zlib_compress(b, n) == <<"zlib", b, n>>

zlib_decompress(b) ==
    IF IsRaise(b) THEN b
    ELSE IF TypeOf(b) = "zlib" THEN b[2] ELSE Raise("zlib.error")

(* length in bytes; only compressed data is ever measured *)
ByteLen(b) == b[3]

urlsafe_b64encode(b) == <<"b64", b, 0, FALSE>>

(* base64.urlsafe_b64decode: characters outside the alphabet are dropped
   (leaving a length that is no multiple of 4: binascii.Error) and the unused
   bits of the last character are ignored.  Bytes that are not base64 text
   decode to unrelated bytes, or raise: both are "garbage" here, since every
   caller rejects both. *)
urlsafe_b64decode(t) ==
    IF IsRaise(t) THEN t
    ELSE IF TypeOf(t) = "b64"
         THEN IF t[4] THEN Raise("binascii.Error") ELSE t[2]
         ELSE <<"garbage">>

(* number of "=" at the end of the base64 text of a Fernet token: the binary
   token is 1 + 8 + 16 + 16 * blocks + 32 bytes, PKCS7 always adds padding *)
FernetPad(plaintext) ==
    LET blocks == (ByteLen(plaintext) \div 16) + 1
        length == 57 + 16 * blocks
    IN  (3 - (length % 3)) % 3

(* Fernet.encrypt: URL-safe base64 of the binary token *)
FernetEncrypt(key, plaintext, ts, iv) ==
    urlsafe_b64encode(<<"fernet", key, ts, iv, plaintext, "none">>)

(* Fernet.decrypt(token) without ttl: base64-decode, check the version byte,
   verify the HMAC, decrypt and unpad; anything wrong is InvalidToken *)
FernetDecrypt(key, tok) ==
    LET data == urlsafe_b64decode(tok)
    IN  IF IsRaise(data) \/ TypeOf(data) # "fernet" THEN Raise("InvalidToken")
        ELSE IF data[6] # "none" \/ data[2] # key THEN Raise("InvalidToken")
        ELSE data[5]

(* encrypt_site_data: iv is Fernet's os.urandom(16), ts its time.time(), n
   the length zlib gives the JSON text (not computed by the model) *)
encrypt_site_data(key, site_data, ts, iv, n) ==
    LET json_bytes == json_dumps(site_data)
        compressed == zlib_compress(json_bytes, n)
    IN  FernetEncrypt(key, compressed, ts, iv)

(***************************************************************************)
(* QRCodeValidator.                                                        *)
(***************************************************************************)

(* Mutant of decrypt_qr_data: the scanned text goes to Fernet.decrypt as it
   is and the plaintext is decompressed before it is parsed. *)
decrypt_qr_data_direct(key, encrypted_data) ==
    LET decrypted_bytes == FernetDecrypt(key, encrypted_data)
        site_data == json_loads(zlib_decompress(decrypted_bytes))
    IN  IF IsRaise(site_data) THEN None ELSE site_data

(* Mutant of decrypt_qr_data: when the plaintext does not parse, the bytes
   decrypted so far are returned. *)
decrypt_qr_data_partial(key, encrypted_data) ==
    LET encrypted_bytes == urlsafe_b64decode(encrypted_data)
        decrypted_bytes ==
            IF IsRaise(encrypted_bytes) THEN encrypted_bytes
            ELSE FernetDecrypt(key, encrypted_bytes)
        site_data == json_loads(decrypted_bytes)
    IN  IF IsRaise(decrypted_bytes) THEN None
        ELSE IF IsRaise(site_data) THEN decrypted_bytes
        ELSE site_data

(* decrypt_qr_data: base64-decode the scanned text, hand the result to
   Fernet.decrypt (which base64-decodes its argument itself), parse the
   plaintext as JSON; any exception gives None *)
decrypt_qr_data(key, encrypted_data) ==
    LET encrypted_bytes == urlsafe_b64decode(encrypted_data)
        decrypted_bytes ==
            IF IsRaise(encrypted_bytes) THEN encrypted_bytes
            ELSE FernetDecrypt(key, encrypted_bytes)
        site_data == json_loads(decrypted_bytes)
    IN  IF IsRaise(site_data) THEN None ELSE site_data

(* Mutant of validate_site_hash: the longitude is left out of the hashed
   string. *)
validate_site_hash_no_lng(site_data) ==
    LET stored_hash == Get(site_data, "validationHash", Str(<<>>))
        siteId == Subscript(site_data, "siteId")
        name == Subscript(site_data, "name")
        lat == Subscript(Subscript(site_data, "coordinates"), "lat")
        err == FirstRaise(<<stored_hash, siteId, name, lat>>)
    IN  IF err # NoValue THEN FALSE
        ELSE stored_hash = Sha256Hex16(Format(siteId) \o Format(name) \o Format(lat))

(* Mutant of validate_site_hash: the active flag is folded into the verdict. *)
validate_site_hash_and_active(site_data) ==
    LET stored_hash == Get(site_data, "validationHash", Str(<<>>))
        active == Get(site_data, "isActive", None)
        siteId == Subscript(site_data, "siteId")
        name == Subscript(site_data, "name")
        lat == Subscript(Subscript(site_data, "coordinates"), "lat")
        lng == Subscript(Subscript(site_data, "coordinates"), "lng")
        err == FirstRaise(<<stored_hash, active, siteId, name, lat, lng>>)
    IN  IF err # NoValue THEN FALSE
        ELSE /\ Truthy(active)
             /\ stored_hash = Sha256Hex16(Format(siteId) \o Format(name)
                                          \o Format(lat) \o Format(lng))

(* validate_site_hash: every exception inside the try gives False *)
validate_site_hash(site_data) ==
    LET stored_hash == Get(site_data, "validationHash", Str(<<>>))
        siteId == Subscript(site_data, "siteId")
        name == Subscript(site_data, "name")
        lat == Subscript(Subscript(site_data, "coordinates"), "lat")
        lng == Subscript(Subscript(site_data, "coordinates"), "lng")
        err == FirstRaise(<<stored_hash, siteId, name, lat, lng>>)
    IN  IF err # NoValue THEN FALSE
        ELSE LET expected_hash ==
                    Sha256Hex16(Format(siteId) \o Format(name)
                                \o Format(lat) \o Format(lng))
             IN  stored_hash = expected_hash

(* Mutant of check_expiry: the instant expiresAt itself still counts. *)
check_expiry_inclusive(site_data, t) ==
    LET raw == Get(site_data, "expiresAt", Str(<<>>))
        expires_at == IF IsRaise(raw) THEN raw ELSE fromisoformat(raw)
    IN  IF IsRaise(expires_at) THEN FALSE ELSE t <= expires_at[2]

(* check_expiry at clock reading t: every exception gives False *)
check_expiry(site_data, t) ==
    LET raw == Get(site_data, "expiresAt", Str(<<>>))
        expires_at == IF IsRaise(raw) THEN raw ELSE fromisoformat(raw)
    IN  IF IsRaise(expires_at) THEN FALSE ELSE t < expires_at[2]

MsgDecrypt == "Invalid QR code format or decryption failed"
MsgInactive == "This monitoring site is currently inactive"
MsgTampered == "QR code data has been tampered with"
MsgExpired == "QR code has expired"
MsgValid == "QR code is valid"

Return(ok, data, message) == <<"return", ok, data, message>>

(* Mutant of validate_qr_code: expiry is checked before the hash. *)
validate_qr_code_expiry_first(key, qr_content, t) ==
    LET site_data == decrypt_qr_data(key, qr_content)
    IN  IF ~Truthy(site_data) THEN Return(FALSE, None, MsgDecrypt)
        ELSE LET active == Get(site_data, "isActive", None)
             IN  IF IsRaise(active) THEN active
                 ELSE IF ~Truthy(active)
                      THEN Return(FALSE, site_data, MsgInactive)
                 ELSE IF ~check_expiry(site_data, t)
                      THEN Return(FALSE, site_data, MsgExpired)
                 ELSE IF ~validate_site_hash(site_data)
                      THEN Return(FALSE, site_data, MsgTampered)
                 ELSE Return(TRUE, site_data, MsgValid)

(* validate_qr_code at clock reading t: the tuple returned, or the exception
   that leaves the method (site_data.get on a value that is not a dict) *)
validate_qr_code(key, qr_content, t) ==
    LET site_data == decrypt_qr_data(key, qr_content)
    IN  IF ~Truthy(site_data) THEN Return(FALSE, None, MsgDecrypt)
        ELSE LET active == Get(site_data, "isActive", None)
             IN  IF IsRaise(active) THEN active
                 ELSE IF ~Truthy(active)
                      THEN Return(FALSE, site_data, MsgInactive)
                 ELSE IF ~validate_site_hash(site_data)
                      THEN Return(FALSE, site_data, MsgTampered)
                 ELSE IF ~check_expiry(site_data, t)
                      THEN Return(FALSE, site_data, MsgExpired)
                 ELSE Return(TRUE, site_data, MsgValid)

(* QRCodeValidator.__init__: the object holds the cipher and nothing else *)
QRCodeValidator(secret_key) == [cipher |-> DeriveKey(secret_key)]

(* Mutant of ValidatorCall: the validator remembers the strings it has seen
   and rejects a string presented again. *)
ValidatorCall_single_use(self, qr_content, t) ==
    LET seen == IF "seen" \in DOMAIN self THEN self.seen ELSE {}
    IN  <<IF qr_content \in seen THEN Return(FALSE, None, MsgDecrypt)
          ELSE validate_qr_code(self.cipher, qr_content, t),
          [cipher |-> self.cipher, seen |-> seen \cup {qr_content}]>>

(* self.validate_qr_code(qr_content) as a method call at clock reading t:
   what it returns (or raises) and the object after the call.  Neither
   validate_qr_code nor decrypt_qr_data, validate_site_hash, check_expiry
   assigns to self or to a global; self.cipher is only read. *)
ValidatorCall(self, qr_content, t) ==
    <<validate_qr_code(self.cipher, qr_content, t), self>>

(***************************************************************************)
(* Inputs: site records (rows of the CSV, as row.to_dict() gives them) and *)
(* the strings a scanner may hand to validate_qr_code.                     *)
(***************************************************************************)
SECRET_KEY == "HydroSnap_QR_graycode@070505"
OtherSecret == "HYDROSNAP_VALIDATION_KEY_2025"

SiteA ==
    Dict([id |-> Str(<<"S", "1">>), name |-> Str(<<"A">>),
          location |-> Str(<<"L">>),
          latitude |-> Flt(100), longitude |-> Flt(200),
          safe_level |-> Flt(10), warning_level |-> Flt(20),
          danger_level |-> Flt(30), geofence_radius |-> PyInt(100),
          qr_code |-> Str(<<"Q", "1">>), is_active |-> PyBool(TRUE),
          river_name |-> Str(<<"R">>), state |-> Str(<<"X">>)])

(* an inactive site *)
SiteB ==
    SetItem(SetItem(SetItem(SiteA, "id", Str(<<"S", "2">>)),
                    "latitude", Flt(105)), "is_active", PyBool(FALSE))

(* a numeric id, integer and text coordinates *)
SiteE ==
    SetItem(SetItem(SetItem(SiteA, "id", PyInt(7)),
                    "latitude", PyInt(12)), "longitude", Str(<<"7", ".", "5">>))

(* a latitude that float() rejects *)
SiteC == SetItem(SiteA, "latitude", Str(<<"n", "/", "a">>))

(* no longitude column *)
SiteD == DelItem(SiteA, "longitude")

SiteRecords == {SiteA, SiteB, SiteC, SiteD, SiteE}

(* os.urandom(16) of Fernet.encrypt *)
IVs == {1, 2}

(* lengths zlib may give the JSON text: the first leaves the base64 text of
   the token unpadded, the second padded *)
CompressedLens == {176, 160}

(* The binary token with one region changed. *)
Damage(raw, region) == <<"fernet", raw[2], raw[3], raw[4], raw[5], region>>

(* Every text that differs from the base64 text tok in exactly one character:
   a character of a region of the binary token replaced by another of the
   alphabet; any character replaced by one outside the alphabet; and, where
   the text ends in "=", the last character before it changed in its unused
   bits only, or a "=" replaced by a character of the alphabet (one more byte
   decoded). *)
OneCharEdits(tok) ==
    LET raw == tok[2]
        padded == FernetPad(raw[5]) > 0
    IN  {<<"b64", Damage(raw, g), 0, FALSE>> :
            g \in {"version", "timestamp", "iv", "ciphertext", "hmac"}}
        \cup {<<"b64", raw, 0, TRUE>>}
        \cup (IF padded
              THEN {<<"b64", raw, 1, FALSE>>, <<"b64", Damage(raw, "length"), 0, FALSE>>}
              ELSE {})

(* Payloads as a scanner may meet them after decryption: a payload with the
   active flag, the stored hash and the expiry each kept, changed or removed. *)
WithActive(d, a) ==
    CASE a = "keep" -> d
      [] a = "false" -> SetItem(d, "isActive", PyBool(FALSE))
      [] a = "missing" -> DelItem(d, "isActive")

WithHash(d, h) ==
    CASE h = "keep" -> d
      [] h = "bad" -> SetItem(d, "validationHash", Str(<<"#", "S">>))
      [] h = "missing" -> DelItem(d, "validationHash")

WithExpiry(d, e) ==
    CASE e = "keep" -> d
      [] e = "early" -> SetItem(d, "expiresAt", isoformat(1))
      [] e = "bad" -> SetItem(d, "expiresAt", Str(<<"s", "o", "o", "n">>))
      [] e = "missing" -> DelItem(d, "expiresAt")

PayloadVariants(d) ==
    {WithExpiry(WithHash(WithActive(d, a), h), e) :
        a \in {"keep", "false", "missing"},
        h \in {"keep", "bad", "missing"},
        e \in {"keep", "early", "bad", "missing"}}
    \cup {DelItem(d, k) : k \in {"siteId", "name", "coordinates"}}
    \cup {SetItem(d, "coordinates", PyInt(5))}

(* JSON documents that are not a payload at all *)
OtherDocs ==
    {Dict(<<>>), Dict([x |-> PyInt(1)]), List(0), List(2), PyInt(0), PyInt(5),
     Str(<<>>), Str(<<"h", "i">>), PyBool(TRUE), PyBool(FALSE), None}

(* A token in the format decrypt_qr_data undoes: the Fernet token of the JSON
   text, base64-encoded once more. *)
DoubleEncoded(key, doc) ==
    urlsafe_b64encode(FernetEncrypt(key, json_dumps(doc), 0, 1))

(* the payload the variants are built from: the one generated, else SiteA's *)
BaseDoc ==
    IF TypeOf(payload) = "dict" THEN payload ELSE generate_qr_data(SiteA, 0, 0)

ScanInputs ==
    (IF token # NoValue
     THEN {token, urlsafe_b64encode(token)} \cup OneCharEdits(token)
     ELSE {})
    \cup {DoubleEncoded(DeriveKey(SECRET_KEY), d) :
            d \in PayloadVariants(BaseDoc) \cup OtherDocs}
    \cup {DoubleEncoded(DeriveKey(OtherSecret), BaseDoc),
          FernetEncrypt(DeriveKey(SECRET_KEY), json_dumps(BaseDoc), 0, 1),
          <<"text", "gAAAAABnDvHX...">>}

(***************************************************************************)
(* The pipeline: one payload is generated and encrypted, strings are       *)
(* validated, the clock moves.                                             *)
(***************************************************************************)
Init ==
    /\ now = 0
    /\ ticks = 0
    /\ payload = NoValue
    /\ token = NoValue
    /\ scanned = NoValue
    /\ result = NoValue
    /\ probe = NoValue
    /\ validator = QRCodeValidator(SECRET_KEY)
    /\ earlier = NoValue
    /\ geo = NoValue
    /\ rows = NoValue
    /\ idx = 0
    /\ successful = 0
    /\ failed = 0
    /\ failed_sites = <<>>
    /\ handled = <<>>
    /\ loop = "load"

(* time passes between calls: a day, or the validity period *)
Tick ==
    /\ ticks < MaxTicks
    /\ \E d \in {1, ValidDays} : now' = now + d
    /\ ticks' = ticks + 1
    /\ scanned' = NoValue
    /\ result' = NoValue
    /\ UNCHANGED <<payload, token, probe, validator, earlier, geo>>
    /\ UNCHANGED batchVars

(* generator.generate_qr_data(site_info); the clock may move between the two
   datetime.now() calls *)
GenerateQrData ==
    /\ payload = NoValue
    /\ \E site_info \in SiteRecords, d \in 0..MaxDrift :
          /\ payload' = generate_qr_data(site_info, now, now + d)
          /\ now' = now + d
    /\ scanned' = NoValue
    /\ result' = NoValue
    /\ UNCHANGED <<ticks, token, probe, validator, earlier, geo>>
    /\ UNCHANGED batchVars

(* generator.encrypt_site_data(payload) *)
EncryptSiteData ==
    /\ TypeOf(payload) = "dict"
    /\ token = NoValue
    /\ \E iv \in IVs, n \in CompressedLens :
          token' = encrypt_site_data(DeriveKey(SECRET_KEY), payload, now, iv, n)
    /\ scanned' = NoValue
    /\ result' = NoValue
    /\ UNCHANGED <<now, ticks, payload, probe, validator, earlier, geo>>
    /\ UNCHANGED batchVars

(* validator.validate_qr_code(qr_content) *)
ValidateQrCode ==
    /\ result = NoValue
    /\ \E qr_content \in ScanInputs :
          LET call == ValidatorCall(validator, qr_content, now)
          IN  /\ scanned' = <<"scan", qr_content, now>>
              /\ result' = call[1]
              /\ validator' = call[2]
    /\ UNCHANGED <<now, ticks, payload, token, probe, earlier, geo>>
    /\ UNCHANGED batchVars

Next == Tick \/ GenerateQrData \/ EncryptSiteData \/ ValidateQrCode

Spec == Init /\ [][Next]_vars

(***************************************************************************)
(* Claims about the pipeline.                                              *)
(***************************************************************************)
ValidatorKey == DeriveKey(SECRET_KEY)
Called == result # NoValue
Returned == Called /\ result[1] = "return"
Content == scanned[2]
At == scanned[3]
ExpiryOf(d) == fromisoformat(Get(d, "expiresAt", Str(<<>>)))
IsActivePayload(d) ==
    TypeOf(d) = "dict" /\ Truthy(Get(d, "isActive", None))

(* C1: the generator's token for an active site, validated with the same
   secret before expiresAt, is valid and carries the payload that was
   encrypted. *)
C1_RoundTrip ==
    (/\ Called
     /\ token # NoValue
     /\ Content = token
     /\ IsActivePayload(payload)
     /\ At < ExpiryOf(payload)[2])
    => /\ Returned
       /\ result[2] = TRUE
       /\ \A k \in {"siteId", "name", "coordinates", "levels",
                    "geofenceRadius", "qrCode", "isActive"} :
             Get(result[3], k, None) = Get(payload, k, None)

(* C2: the reason returned is that of the first failing check in the order
   decryption, active flag, hash, expiry; an inactive payload is reported
   inactive whatever its hash and expiry, a tampered and expired one
   tampered. *)
C2_CheckOrder ==
    Returned =>
        LET d == decrypt_qr_data(ValidatorKey, Content)
            decrypted == Truthy(d)
            active == IsActivePayload(d)
            intact == validate_site_hash(d)
            fresh == check_expiry(d, At)
        IN  /\ result[4] = (IF ~decrypted THEN MsgDecrypt
                            ELSE IF ~active THEN MsgInactive
                            ELSE IF ~intact THEN MsgTampered
                            ELSE IF ~fresh THEN MsgExpired
                            ELSE MsgValid)
            /\ result[2] = (decrypted /\ active /\ intact /\ fresh)
            /\ (TypeOf(d) = "dict" /\ Get(d, "isActive", None) = PyBool(FALSE))
                  => result[4] = MsgInactive
            /\ (decrypted /\ active /\ ~intact /\ ~fresh)
                  => result[4] = MsgTampered

C2_Witness ==
    /\ Returned
    /\ result[4] = MsgTampered
    /\ IsActivePayload(result[3])
    /\ ~check_expiry(result[3], At)

C2_WitnessInactive ==
    /\ Returned
    /\ result[4] = MsgInactive
    /\ ~validate_site_hash(result[3])
    /\ ~check_expiry(result[3], At)

(* C3: a text one character away from the generator's token is never valid:
   the validator answers decryption failed or tampered. *)
C3_TamperNeverValid ==
    (Called /\ token # NoValue /\ Content \in OneCharEdits(token))
    => /\ Returned
       /\ result[2] = FALSE
       /\ result[4] \in {MsgDecrypt, MsgTampered}

(* the edit that leaves the decoded bytes as they were *)
C3_Witness ==
    /\ Called
    /\ token # NoValue
    /\ Content = <<"b64", token[2], 1, FALSE>>
    /\ IsActivePayload(payload)
    /\ At < ExpiryOf(payload)[2]
    /\ result = Return(FALSE, None, MsgDecrypt)

(* C4: an active payload with a matching hash is reported expired whenever
   the clock is past expiresAt, and is valid only before expiresAt. *)
C4_Expiry ==
    (/\ Returned
     /\ IsActivePayload(result[3])
     /\ validate_site_hash(result[3]))
    => LET expires_at == ExpiryOf(result[3])
       IN  /\ (~IsRaise(expires_at) /\ At > expires_at[2])
                 => (result[2] = FALSE /\ result[4] = MsgExpired)
           /\ result[2] = TRUE
                 => (~IsRaise(expires_at) /\ At < expires_at[2])

C4_Witness ==
    /\ Returned
    /\ IsActivePayload(result[3])
    /\ validate_site_hash(result[3])
    /\ ~IsRaise(ExpiryOf(result[3]))
    /\ At > ExpiryOf(result[3])[2]
    /\ result[4] = MsgExpired

C4_WitnessValid ==
    /\ Returned
    /\ result[2] = TRUE
    /\ At < ExpiryOf(result[3])[2]

(* C5: validate_qr_code never raises: every call returns a tuple, with
   ok = False and a reason on failure. *)
C5_NeverRaises ==
    Called => /\ Returned
              /\ result[2] = FALSE => result[4] # MsgValid

(* the decoding stages of decrypt_qr_data, one by one *)
StageDecoded == urlsafe_b64decode(Content)
StageDecrypted ==
    IF IsRaise(StageDecoded) THEN StageDecoded
    ELSE FernetDecrypt(ValidatorKey, StageDecoded)
StageParsed == json_loads(StageDecrypted)

(* C6: when any stage of decryption fails, decrypt_qr_data gives None and
   validate_qr_code returns (False, None, decryption failed): nothing
   partially decoded is returned. *)
C6_AllOrNothing ==
    (Called /\ IsRaise(StageParsed))
    => /\ decrypt_qr_data(ValidatorKey, Content) = None
       /\ result = Return(FALSE, None, MsgDecrypt)

(* the token authenticates and decrypts, its plaintext is not JSON *)
C6_Witness ==
    /\ Called
    /\ ~IsRaise(StageDecrypted)
    /\ IsRaise(StageParsed)
    /\ result = Return(FALSE, None, MsgDecrypt)

C6_WitnessAuth ==
    /\ Called
    /\ ~IsRaise(StageDecoded)
    /\ IsRaise(StageDecrypted)
    /\ result = Return(FALSE, None, MsgDecrypt)

(* C8: expiresAt is generatedAt plus 365 days exactly. *)
C8_ExpiresExactly ==
    TypeOf(payload) = "dict"
    => ExpiryOf(payload)[2]
         = fromisoformat(Get(payload, "generatedAt", None))[2] + ValidDays

(***************************************************************************)
(* Direct calls of validate_site_hash: on a payload and on the same        *)
(* payload with one field changed.                                         *)
(***************************************************************************)
(* payloads to start from: as generated, or with the hashed part broken *)
ProbeBases(g) ==
    {g,
     SetItem(g, "isActive", PyBool(FALSE)),
     SetItem(g, "validationHash", Str(<<"#", "S">>)),
     DelItem(g, "validationHash"),
     DelItem(g, "siteId"),
     SetItem(g, "coordinates", PyInt(5))}

(* one change to a payload: <<"set", key, value>>, <<"del", key>>,
   <<"coord", key, value>> *)
IdentityEdits ==
    {<<"set", "siteId", Str(<<"S">>)>>, <<"set", "siteId", Str(<<"S", "1", "A">>)>>,
     <<"set", "siteId", Str(<<"7">>)>>,
     <<"set", "name", Str(<<>>)>>, <<"set", "name", Str(<<"A", "1">>)>>,
     <<"coord", "lat", Flt(10)>>, <<"coord", "lat", PyInt(10)>>,
     <<"coord", "lat", Flt(120)>>,
     <<"coord", "lng", Flt(20)>>, <<"coord", "lng", Flt(205)>>,
     <<"coord", "lng", Flt(75)>>}

OtherEdits ==
    {<<"set", "levels", Dict([safe |-> Flt(11), warning |-> Flt(20), danger |-> Flt(30)])>>,
     <<"del", "levels">>,
     <<"set", "isActive", PyBool(FALSE)>>, <<"set", "isActive", PyBool(TRUE)>>,
     <<"del", "isActive">>,
     <<"set", "geofenceRadius", PyInt(5000)>>,
     <<"set", "location", Str(<<"M">>)>>,
     <<"set", "qrCode", Str(<<"Q", "2">>)>>,
     <<"set", "generatedAt", isoformat(9)>>,
     <<"set", "expiresAt", isoformat(1)>>, <<"del", "expiresAt">>}

ApplyEdit(d, e) ==
    CASE e[1] = "set" -> SetItem(d, e[2], e[3])
      [] e[1] = "del" -> DelItem(d, e[2])
      [] e[1] = "coord" ->
            SetItem(d, "coordinates", SetItem(Get(d, "coordinates", None), e[2], e[3]))

Editable(d, e) ==
    e[1] = "coord" => TypeOf(Get(d, "coordinates", None)) = "dict"

(* validator.validate_site_hash(p) and validator.validate_site_hash(q), q
   being p with one change *)
ProbeHash ==
    /\ \E site_info \in {SiteA, SiteB, SiteE} :
         \E p \in ProbeBases(generate_qr_data(site_info, now, now)) :
           \E e \in IdentityEdits \cup OtherEdits :
              /\ Editable(p, e)
              /\ probe' = <<"probe", p, ApplyEdit(p, e),
                            validate_site_hash(p),
                            validate_site_hash(ApplyEdit(p, e)),
                            p = generate_qr_data(site_info, now, now)>>
    /\ UNCHANGED <<now, ticks, payload, token, scanned, result>>
    /\ UNCHANGED <<validator, earlier, geo>>
    /\ UNCHANGED batchVars

NextHash == ProbeHash

SpecHash == Init /\ [][NextHash]_vars

Probed == probe # NoValue
ProbeP == probe[2]
ProbeQ == probe[3]
VerdictP == probe[4]
VerdictQ == probe[5]
ProbeGenerated == probe[6]

(* the four hashed values of a payload, and its stored hash *)
Hashed(d, f) ==
    IF f \in {"lat", "lng"} THEN Subscript(Subscript(d, "coordinates"), f)
    ELSE Subscript(d, f)
HashedFields == {"siteId", "name", "lat", "lng"}
Differing == {f \in HashedFields : Hashed(ProbeP, f) # Hashed(ProbeQ, f)}
SameStoredHash ==
    Get(ProbeP, "validationHash", NoValue) = Get(ProbeQ, "validationHash", NoValue)

(* C9: a payload built by generate_qr_data passes validate_site_hash, and a
   payload that passes fails once exactly one of siteId, name, lat, lng is
   changed and validationHash is left as it was. *)
C9_HashStableAndSensitive ==
    Probed =>
        /\ ProbeGenerated => VerdictP = TRUE
        /\ (VerdictP /\ SameStoredHash /\ Cardinality(Differing) = 1)
              => VerdictQ = FALSE

C9_Witness ==
    /\ Probed
    /\ ProbeGenerated
    /\ VerdictP = TRUE
    /\ SameStoredHash
    /\ Differing = {"lng"}
    /\ VerdictQ = FALSE

(* C10: two payloads that agree on siteId, name, lat, lng and validationHash
   get the same verdict from validate_site_hash, whatever else differs. *)
C10_HashScope ==
    (Probed /\ SameStoredHash /\ Differing = {}) => VerdictP = VerdictQ

C10_Witness ==
    /\ Probed
    /\ SameStoredHash
    /\ Differing = {}
    /\ Get(ProbeP, "isActive", None) # Get(ProbeQ, "isActive", None)
    /\ VerdictP = TRUE
    /\ VerdictQ = TRUE

(***************************************************************************)
(* generate_all_qr_codes: the loop over the rows of the CSV.               *)
(***************************************************************************)
NumericColumns ==
    {"safe_level", "warning_level", "danger_level", "latitude", "longitude",
     "geofence_radius"}

(* lines 385-400: NaN cells are replaced by defaults *)
NormaliseRow(row) ==
    Dict([k \in DOMAIN row[2] |->
            IF row[2][k] # NaN THEN row[2][k]
            ELSE IF k \in NumericColumns THEN Flt(0)
            ELSE IF k = "is_active" THEN PyBool(TRUE)
            ELSE Str(<<>>)])

(* create_qr_code_with_label, and create_simple_qr_code after it: both call
   .replace on site_info["id"] and on site_info.get("qr_code", ""), which
   raises AttributeError on a value that is not a str; drawing and saving the
   image is the environment's: image is "label" (the first succeeds),
   "simple" (only the fallback does) or "none".  The file path, or None. *)
CreateQrImage(site_data, image) ==
    IF TypeOf(Subscript(site_data, "id")) # "str"
       \/ TypeOf(Get(site_data, "qr_code", Str(<<>>))) # "str"
       \/ image = "none"
    THEN None
    ELSE Str(<<"p", "n", "g">>)

(* generate_qr_for_site: <<filepath, qr_data>>, or <<None, None>> after any
   exception; export is whether site_data_<id>.json could be written *)
generate_qr_for_site(site_data, t, image, export) ==
    LET qr_data == generate_qr_data(site_data, t, t)
        filepath == CreateQrImage(site_data, image)
    IN  IF IsRaise(Subscript(site_data, "id")) \/ IsRaise(qr_data)
           \/ filepath = None \/ ~export
        THEN <<None, None>>
        ELSE <<filepath, qr_data>>

(* the columns the loop body reads itself, lines 402-406 *)
PrintedColumns == {"id", "name", "location", "river_name", "state"}

(* a cell left empty in every column pandas can mark NaN *)
SiteN == SetItem(SetItem(SiteA, "latitude", NaN), "qr_code", NaN)

RowValues == {SiteA, SiteB, SiteC, SiteE, SiteN}

(* columns the CSV may lack *)
ColumnDrops == {{}, {"longitude"}, {"name"}, {"river_name"}}

DropColumns(row, cols) == Dict([k \in DOMAIN row[2] \ cols |-> row[2][k]])

RECURSIVE RowSeqs(_)
RowSeqs(n) ==
    IF n = 0 THEN {<<>>}
    ELSE RowSeqs(n - 1)
         \cup {Append(rs, r) : rs \in {x \in RowSeqs(n - 1) : Len(x) = n - 1},
                               r \in RowValues}

(* load_monitoring_sites and lines 369-379: every row has the same columns *)
LoadCsv ==
    /\ loop = "load"
    /\ \E rs \in RowSeqs(MaxRows) \ {<<>>}, cols \in ColumnDrops :
          rows' = [i \in 1..Len(rs) |-> DropColumns(rs[i], cols)]
    /\ loop' = "run"
    /\ UNCHANGED <<idx, successful, failed, failed_sites, handled, probe, validator, earlier, geo>>
    /\ UNCHANGED pipeVars

(* Mutant of ProcessRow: a failed record is listed but not counted. *)
ProcessRow_uncounted ==
    /\ loop = "run"
    /\ idx < Len(rows)
    /\ LET site_data == NormaliseRow(rows[idx + 1])
       IN  IF ~(PrintedColumns \subseteq DOMAIN site_data[2])
           THEN \* KeyError at 402-406 leaves the loop for the except at 457
                /\ loop' = "aborted"
                /\ UNCHANGED <<idx, successful, failed, failed_sites, handled>>
           ELSE \E image \in {"label", "simple", "none"}, export \in BOOLEAN :
                  LET r == generate_qr_for_site(site_data, now, image, export)
                  IN  /\ IF Truthy(r[1]) /\ Truthy(r[2])
                         THEN /\ successful' = successful + 1
                              /\ handled' = Append(handled, r)
                              /\ UNCHANGED <<failed, failed_sites>>
                         ELSE /\ failed' = failed
                              /\ failed_sites' =
                                    Append(failed_sites, site_data[2]["id"])
                              /\ handled' = Append(handled, r)
                              /\ UNCHANGED successful
                      /\ idx' = idx + 1
                      /\ UNCHANGED loop
    /\ UNCHANGED <<rows, probe, validator, earlier, geo>>
    /\ UNCHANGED pipeVars

(* one pass of the for body, lines 382-419, on row idx + 1 *)
ProcessRow ==
    /\ loop = "run"
    /\ idx < Len(rows)
    /\ LET site_data == NormaliseRow(rows[idx + 1])
       IN  IF ~(PrintedColumns \subseteq DOMAIN site_data[2])
           THEN \* KeyError at 402-406 leaves the loop for the except at 457
                /\ loop' = "aborted"
                /\ UNCHANGED <<idx, successful, failed, failed_sites, handled>>
           ELSE \E image \in {"label", "simple", "none"}, export \in BOOLEAN :
                  LET r == generate_qr_for_site(site_data, now, image, export)
                  IN  /\ IF Truthy(r[1]) /\ Truthy(r[2])
                         THEN /\ successful' = successful + 1
                              /\ handled' = Append(handled, r)
                              /\ UNCHANGED <<failed, failed_sites>>
                         ELSE /\ failed' = failed + 1
                              /\ failed_sites' =
                                    Append(failed_sites, site_data[2]["id"])
                              /\ handled' = Append(handled, r)
                              /\ UNCHANGED successful
                      /\ idx' = idx + 1
                      /\ UNCHANGED loop
    /\ UNCHANGED <<rows, probe, validator, earlier, geo>>
    /\ UNCHANGED pipeVars

(* the for statement finds no more rows; the summary follows *)
LoopEnd ==
    /\ loop = "run"
    /\ idx = Len(rows)
    /\ loop' = "done"
    /\ UNCHANGED <<rows, idx, successful, failed, failed_sites, handled, probe, validator, earlier, geo>>
    /\ UNCHANGED pipeVars

NextBatch == LoadCsv \/ ProcessRow \/ LoopEnd

SpecBatch == Init /\ [][NextBatch]_vars

(* the record's encoding fails: generate_qr_data raises on it *)
EncodingFails(row) == IsRaise(generate_qr_data(NormaliseRow(row), now, now))

(* C7: a record whose encoding fails does not stop the batch: the loop is
   not abandoned, and when it ends every record has been processed. *)
C7_BatchIsolation ==
    (loop # "load" /\ \E i \in 1..Len(rows) : EncodingFails(rows[i]))
    => /\ loop # "aborted"
       /\ loop = "done" => Len(handled) = Len(rows)

(* the ids, in processing order, of those of the first n records for which
   generate_qr_for_site returned no file path or no payload *)
RECURSIVE FailedIds(_)
FailedIds(n) ==
    IF n = 0 THEN <<>>
    ELSE IF Truthy(handled[n][1]) /\ Truthy(handled[n][2])
         THEN FailedIds(n - 1)
         ELSE Append(FailedIds(n - 1), NormaliseRow(rows[n])[2]["id"])

(* C13: at every iteration boundary successful + failed is the number of
   records processed so far and failed_sites is the ids of the records for
   which generate_qr_for_site returned no file path or no payload, in
   processing order; when the loop completes successful + failed is the
   number of records. *)
C13_BatchAccounting ==
    loop # "load" =>
       /\ Len(handled) = idx
       /\ successful + failed = idx
       /\ failed_sites = FailedIds(idx)
       /\ loop = "done" => successful + failed = Len(rows)

(* a completed loop over two records, one generated and one failed *)
C13_Witness ==
    /\ loop = "done"
    /\ Len(rows) = 2
    /\ successful = 1
    /\ failed = 1
    /\ Len(failed_sites) = 1

(***************************************************************************)
(* Repeated validation on one validator: any number of validate_qr_code    *)
(* calls, of the same and of other strings, as the clock advances.         *)
(***************************************************************************)

(* the strings presented: the generator's token, and double-encoded tokens
   of the payload, of the payload expiring early, of the payload of an
   inactive site and of a document that is no payload *)
ReplayInputs ==
    (IF token # NoValue THEN {token} ELSE {})
    \cup {DoubleEncoded(DeriveKey(SECRET_KEY), d) :
            d \in {BaseDoc, WithExpiry(BaseDoc, "early"),
                   WithActive(BaseDoc, "false"), List(2)}}

(* validator.validate_qr_code(qr_content), with no limit on how often *)
ReplayQrCode ==
    /\ \E qr_content \in ReplayInputs :
          LET call == ValidatorCall(validator, qr_content, now)
          IN  /\ scanned' = <<"scan", qr_content, now>>
              /\ result' = call[1]
              /\ validator' = call[2]
              /\ earlier' = IF earlier = NoValue
                            THEN <<"scan", qr_content, now, call[1]>>
                            ELSE earlier
    /\ UNCHANGED <<now, ticks, payload, token, probe, geo>>
    /\ UNCHANGED batchVars

NextReplay == Tick \/ GenerateQrData \/ EncryptSiteData \/ ReplayQrCode

SpecReplay == Init /\ [][NextReplay]_vars

(* the clock reading t is before the expiresAt of the payload in qr_content;
   a string with no payload, or no readable expiresAt, has no expiry to pass *)
BeforeExpiry(qr_content, t) ==
    LET d == decrypt_qr_data(ValidatorKey, qr_content)
    IN  (TypeOf(d) = "dict" /\ ~IsRaise(ExpiryOf(d))) => t < ExpiryOf(d)[2]

(* C11: validate_qr_code leaves the validator as its constructor made it, and
   a string validated again, after any validations of other strings on the
   same validator, gives the result of the earlier call when both calls are
   made before its expiresAt. *)
C11_StatelessReplay ==
    /\ validator = QRCodeValidator(SECRET_KEY)
    /\ (/\ earlier # NoValue
        /\ Called
        /\ Content = earlier[2]
        /\ BeforeExpiry(Content, earlier[3])
        /\ BeforeExpiry(Content, At))
       => result = earlier[4]

(* a valid token validated again at a later clock reading, valid again *)
C11_Witness ==
    /\ earlier # NoValue
    /\ Returned
    /\ Content = earlier[2]
    /\ At > earlier[3]
    /\ result[2] = TRUE
    /\ result = earlier[4]
    /\ validator = QRCodeValidator(SECRET_KEY)

(***************************************************************************)
(* validate_location_proximity.  The user's coordinates are floats, given  *)
(* here in millionths of a degree; a distance is a float of metres, held   *)
(* in thousandths.                                                         *)
(***************************************************************************)
EarthRadius == 6371000

Metres(mm) == <<"metres", mm>>

(* the values math.radians and <= take as numbers *)
IsNumber(v) == TypeOf(v) \in {"int", "float", "bool", "nan"}

(* a number of the payload in millionths of a degree *)
MicroDeg(v) ==
    CASE TypeOf(v) = "float" -> 100000 * v[2]
      [] TypeOf(v) = "int" -> 1000000 * v[2]
      [] TypeOf(v) = "bool" -> IF v[2] THEN 1000000 ELSE 0

(* a number of the payload in thousandths of a metre *)
Millimetres(v) ==
    CASE TypeOf(v) = "float" -> 100 * v[2]
      [] TypeOf(v) = "int" -> 1000 * v[2]
      [] TypeOf(v) = "bool" -> IF v[2] THEN 1000 ELSE 0

(* distance <= geofence_radius; a comparison with NaN is False *)
LessEq(distance, radius) ==
    /\ distance # NaN
    /\ radius # NaN
    /\ distance[2] <= Millimetres(radius)

(* distance < geofence_radius *)
Less(distance, radius) ==
    /\ distance # NaN
    /\ radius # NaN
    /\ distance[2] < Millimetres(radius)

(* haversine_distance for two points on one meridian: with dlon = 0,
   a = sin(dlat/2)**2 and c = 2*asin(sqrt(a)) = |dlat|, so the distance is
   r * |dlat| * pi / 180, taken here with pi = 355/113 and rounded down to the
   millimetre.  lat1, lon1 are the user's; lat2, lon2 the payload's. *)
haversine_distance(lat1, lon1, lat2, lon2) ==
    IF ~IsNumber(lat2) \/ ~IsNumber(lon2) THEN Raise("TypeError")
    ELSE IF lat2 = NaN \/ lon2 = NaN THEN NaN
    ELSE LET dlat == MicroDeg(lat2) - lat1
             dlon == MicroDeg(lon2) - lon1
             d == IF dlat < 0 THEN -dlat ELSE dlat
         IN  CASE dlon = 0 ->
                 Metres(((((EarthRadius \div 1000) * d) \div 113) * 355) \div 180)

(* Mutant of validate_location_proximity: a distance equal to the radius is
   outside. *)
validate_location_proximity_strict(user_lat, user_lng, site_data) ==
    LET site_coords == Subscript(site_data, "coordinates")
        lat == Subscript(site_coords, "lat")
        lng == Subscript(site_coords, "lng")
        geofence_radius == Subscript(site_data, "geofenceRadius")
    IN  IF IsRaise(lat) THEN lat
        ELSE IF IsRaise(lng) THEN lng
        ELSE LET distance == haversine_distance(user_lat, user_lng, lat, lng)
             IN  IF IsRaise(distance) THEN distance
                 ELSE IF IsRaise(geofence_radius) THEN geofence_radius
                 ELSE IF ~IsNumber(geofence_radius) THEN Raise("TypeError")
                 ELSE <<"return", Less(distance, geofence_radius), distance>>

(* validate_location_proximity: the tuple (is_within, distance) returned, or
   the exception raised by a subscript, by radians() or by <= *)
validate_location_proximity(user_lat, user_lng, site_data) ==
    LET site_coords == Subscript(site_data, "coordinates")
        lat == Subscript(site_coords, "lat")
        lng == Subscript(site_coords, "lng")
        geofence_radius == Subscript(site_data, "geofenceRadius")
    IN  IF IsRaise(lat) THEN lat
        ELSE IF IsRaise(lng) THEN lng
        ELSE LET distance == haversine_distance(user_lat, user_lng, lat, lng)
             IN  IF IsRaise(distance) THEN distance
                 ELSE IF IsRaise(geofence_radius) THEN geofence_radius
                 ELSE IF ~IsNumber(geofence_radius) THEN Raise("TypeError")
                 ELSE <<"return", LessEq(distance, geofence_radius), distance>>

(* the payloads presented: generated ones with the radius set to small
   integers and floats, and ones whose radius or coordinates are missing,
   not numbers or NaN *)
GeoRadii == {PyInt(0), PyInt(100), PyInt(150), PyInt(-5), Flt(999), NaN}

GeoPayloads ==
    LET generated == {generate_qr_data(site_info, 0, 0) :
                         site_info \in {SiteA, SiteB, SiteE}}
    IN  {SetItem(d, "geofenceRadius", r) : d \in generated, r \in GeoRadii}
        \cup {DelItem(d, "geofenceRadius") : d \in generated}
        \cup {SetItem(d, "geofenceRadius", Str(<<"1", "5", "0">>)) : d \in generated}
        \cup {SetItem(d, "coordinates", PyInt(5)) : d \in generated}
        \cup {SetItem(d, "coordinates",
                      Dict([lat |-> NaN, lng |-> d[2]["coordinates"][2]["lng"]])) :
                 d \in generated}
        \cup {SetItem(d, "coordinates",
                      Dict([lat |-> Str(<<"n">>),
                            lng |-> d[2]["coordinates"][2]["lng"]])) :
                 d \in generated}

(* the site's position in millionths of a degree; 0 where it has none *)
SitePosition(site_data, k) ==
    LET v == Subscript(Subscript(site_data, "coordinates"), k)
    IN  IF IsRaise(v) \/ ~IsNumber(v) \/ v = NaN THEN 0 ELSE MicroDeg(v)

(* the user stands on the site's meridian, this many millionths of a degree
   north of it: on it, about 100 m, 150 m and 500 m away *)
GeoOffsets == {0, 899, -899, 1349, 1350, 4497}

(* validate_location_proximity(user_lat, user_lng, site_data) *)
CheckProximity ==
    /\ \E site_data \in GeoPayloads, off \in GeoOffsets :
          LET user_lat == SitePosition(site_data, "lat") + off
              user_lng == SitePosition(site_data, "lng")
          IN  geo' = <<"call", user_lat, user_lng, site_data,
                       validate_location_proximity(user_lat, user_lng, site_data)>>
    /\ UNCHANGED <<validator, earlier, probe>>
    /\ UNCHANGED pipeVars
    /\ UNCHANGED batchVars

NextGeo == CheckProximity

SpecGeo == Init /\ [][NextGeo]_vars

GeoCalled == geo # NoValue
GeoReturned == GeoCalled /\ geo[5][1] = "return"
GeoWithin == geo[5][2]
GeoDistance == geo[5][3]
GeoRadius == Subscript(geo[4], "geofenceRadius")
SamePoint ==
    LET lat == Subscript(Subscript(geo[4], "coordinates"), "lat")
        lng == Subscript(Subscript(geo[4], "coordinates"), "lng")
    IN  /\ lat # NaN /\ lng # NaN
        /\ geo[2] = MicroDeg(lat)
        /\ geo[3] = MicroDeg(lng)

(* C12: the call reports within exactly when the distance it returns is at
   most the payload's geofenceRadius; a distance equal to the radius is
   within; and a user at the site's own point is at distance 0 and within
   for every radius >= 0. *)
C12_GeofenceBoundary ==
    GeoReturned =>
       /\ GeoWithin <=> (/\ GeoDistance # NaN
                         /\ GeoRadius # NaN
                         /\ GeoDistance[2] <= Millimetres(GeoRadius))
       /\ (GeoDistance # NaN /\ GeoRadius # NaN
           /\ GeoDistance[2] = Millimetres(GeoRadius)) => GeoWithin
       /\ (SamePoint /\ GeoRadius # NaN /\ Millimetres(GeoRadius) >= 0)
          => (GeoDistance = Metres(0) /\ GeoWithin)

(* a call whose distance equals the radius, reported within *)
C12_Witness ==
    /\ GeoReturned
    /\ GeoDistance # NaN /\ GeoRadius # NaN
    /\ GeoDistance[2] = Millimetres(GeoRadius)
    /\ GeoWithin

(* a user about 100 m away inside a 150 m fence, and one 500 m away outside *)
C12_WitnessInside ==
    /\ GeoReturned
    /\ GeoRadius = PyInt(150)
    /\ GeoDistance # NaN /\ GeoDistance[2] \in 99000..101000
    /\ GeoWithin

C12_WitnessOutside ==
    /\ GeoReturned
    /\ GeoRadius = PyInt(150)
    /\ GeoDistance # NaN /\ GeoDistance[2] \in 499000..501000
    /\ ~GeoWithin

====
